---- MODULE Spec2Model ----
(***************************************************************************)
(* Commit graph layout of branch_monkey.                                   *)
(*                                                                         *)
(* The web front end (src/fastapi_server.py) asks the server for the       *)
(* commit tree (get_commit_tree) and lays it out on a canvas               *)
(* (drawCommitTree); the text front end (src/branch_monkey/core/graph.py)  *)
(* builds its own node list (GitGraph.build_graph).  Both read the same    *)
(* Git repository, modelled here by what `git log --all`, `git branch`     *)
(* and `git rev-parse HEAD` print for it.                                  *)
(***************************************************************************)
EXTENDS Integers, Sequences, FiniteSets, TLC

\* Bounds of the model.
MaxCommits == 3     \* commits in the window of an arbitrary repository
MaxParents == 2     \* parent ids per commit
MaxLinks == 2       \* parent links in an arbitrary repository
MaxBranches == 2    \* local branches whose tip lies in the window
MaxPending == 1     \* /api/commit-tree requests outstanding at once
MaxLines == 2       \* lines of `git log` output given to the parsing loop
MaxLineLen == 7     \* characters of such a line
FullLen == 8        \* characters of a full object name (40 in Git)

\* `[:7]`, the length the server cuts HEAD and the parent ids to.
ShortLen == 7

\* The value `git log` lists for a parent that is not in the window.
Outside == 0
\* HEAD names no commit (`git rev-parse HEAD` fails, repo.head.commit raises).
Unborn == -1

\* Local branch names, in the order `git branch` lists them (by refname).
BranchNames == <<"constructor", "feature", "main", "master">>
BranchNameSet == {BranchNames[i] : i \in 1..Len(BranchNames)}

(* The state: one repository, the page of the web front end and the graph
   screen of the text front end. *)

VARIABLES
    repo,            \* what Git reports about the repository
    inflight,        \* answers to /api/commit-tree that have not arrived yet
    commitTreeData,  \* <<>> for null, else <<the data object>>
    canvasLines,     \* the connecting lines on the canvas
    clickAreas,      \* canvas.clickAreas
    nodes,           \* GraphScreen.nodes
    mounted,         \* the graph screen has refreshed at least once
    graph_view,      \* <<>> for None, else <<GraphScreen.graph_view>>
    theme,           \* localStorage 'branchMonkeyTheme', as getTheme reads it
    log_output,      \* the lines of `git log` that get_commit_tree is parsing
    parsed,          \* <<>> before the parsing loop has run, else <<its outcome>>
    found,           \* <<>>, else <<the last call of get_node_by_sha>>
    hgraph,          \* <<>>, else <<the last build of HorizontalGitGraph>>
    dialog,          \* <<>>, else <<the commit of the ConfirmScreen shown>>
    checked_out,     \* the calls of git checkout by the screen, oldest first
    issued,          \* <<>>, else <<the answer to the request issued last>>
    branch_view      \* <<>> for None, else <<HorizontalGraphScreen.graph_view>>

vars == <<repo, inflight, commitTreeData, canvasLines, clickAreas, nodes, mounted,
          graph_view, theme, log_output, parsed, found, hgraph, dialog,
          checked_out, issued, branch_view>>

\* What the page, the screen and the repository leave alone.
screenVars == <<dialog, checked_out>>
sideVars == <<log_output, parsed, found, hgraph, branch_view>>
otherVars == <<sideVars, screenVars, issued>>

-----------------------------------------------------------------------------

Range(s) == {s[i] : i \in 1..Len(s)}
Take(s, k) == [i \in 1..(IF Len(s) < k THEN Len(s) ELSE k) |-> s[i]]
SetMax(S) == CHOOSE x \in S : \A y \in S : y <= x

-----------------------------------------------------------------------------
(* The repository, as Git reports it. *)

\* %H of the commit that `git log` lists in place c (Outside: an older commit
\* cut off by --max-count).  Distinct commits differ in character ShortLen.
FullSha(c) == [j \in 1..FullLen |-> IF j = ShortLen THEN c ELSE 0]

\* %h, %p and %(objectname:short): Git's abbreviation of an object name, as
\* long as the repository needs to keep abbreviations unique (core.abbrev):
\* ShortLen characters at least.
Abbrev(r, full) == Take(full, r.abbrev)

\* Sequences without repetition over S, of length at most k.
RECURSIVE DistinctSeqs(_, _)
DistinctSeqs(S, k) ==
    IF k = 0 THEN {<<>>}
    ELSE LET shorter == DistinctSeqs(S, k - 1)
         IN  shorter \cup
             UNION {{Append(s, x) : x \in S \ Range(s)} :
                        s \in {t \in shorter : Len(t) = k - 1}}

\* c reaches d along at most k parent links inside the window.
RECURSIVE Reaches(_, _, _, _)
Reaches(parents, c, d, k) ==
    /\ k > 0
    /\ \E p \in Range(parents[c]) :
          /\ p # Outside
          /\ (p = d \/ Reaches(parents, p, d, k - 1))

Acyclic(parents) ==
    \A c \in 1..Len(parents) : ~Reaches(parents, c, c, Len(parents))

\* The number of parent links of the window.
RECURSIVE Links(_, _)
Links(parents, c) ==
    IF c > Len(parents) THEN 0 ELSE Len(parents[c]) + Links(parents, c + 1)

\* The parent lists Git can report for n commits in log order.  With clock
\* skew `git log --all` may list a parent before a child of another branch.
ParentLists(n) ==
    {ps \in [1..n -> DistinctSeqs(0..n, MaxParents)] :
        /\ \A c \in 1..n : c \notin Range(ps[c])
        /\ Links(ps, 1) <= MaxLinks
        /\ Acyclic(ps)}

\* Where each local branch points: a commit of the window, or Outside when
\* the branch does not exist or its tip is not in the window.
TipMaps(n) ==
    {t \in [BranchNameSet -> 0..n] :
        Cardinality({b \in BranchNameSet : t[b] # Outside}) <= MaxBranches}

\* HEAD: a commit of the window, a commit outside it, or unborn.  An empty
\* repository has an unborn HEAD.
Heads(n) == IF n = 0 THEN {Unborn} ELSE (0..n) \cup {Unborn}

\* HEAD after a commit: the newest commit, or unborn in an empty repository.
DefaultHead(n) == IF n = 0 THEN Unborn ELSE 1

\* A linear history: each commit's parent is the next one; the oldest commit
\* of the window is the root or has its parent outside the window.
LinearParents(n, root) ==
    [c \in 1..n |-> IF c < n THEN <<c + 1>>
                    ELSE IF root THEN <<>> ELSE <<Outside>>]

\* Two branches forking from a shared commit: the two newest commits have the
\* third as their parent, which has one ancestor.
ForkParents == <<<<3>>, <<3>>, <<4>>, <<>>>>

\* tick: how many commits in a row were made within one second of the
\* committer's clock (1: every commit has a timestamp of its own).
Repo(ps, t, h, a) ==
    [parents |-> ps, tips |-> t, head |-> h, abbrev |-> a, tick |-> 1]

\* Arbitrary small repositories with HEAD at the newest commit.
IsSmallRepo(r) ==
    \E n \in 0..MaxCommits : \E ps \in ParentLists(n) : \E t \in TipMaps(n) :
        r = Repo(ps, t, DefaultHead(n), ShortLen)

\* Linear histories of up to MaxCommits + 1 commits, with any HEAD and either
\* length of abbreviation.
IsLinearRepo(r) ==
    \E n \in 0..(MaxCommits + 1) : \E root \in BOOLEAN :
        \E t \in TipMaps(n) : \E h \in Heads(n) : \E a \in {ShortLen, FullLen} :
            r = Repo(LinearParents(n, root), t, h, a)

\* The forked history with any branch tips.
IsForkRepo(r) ==
    \E t \in TipMaps(Len(ForkParents)) : r = Repo(ForkParents, t, 1, ShortLen)

\* The forked history committed quickly: two commits share each timestamp.
IsQuickForkRepo(r) ==
    \E t \in TipMaps(Len(ForkParents)) :
        r = [Repo(ForkParents, t, 1, ShortLen) EXCEPT !.tick = 2]

WindowSize(r) == Len(r.parents)

-----------------------------------------------------------------------------
(* JavaScript values of commit.column, commit.color and the coordinates. *)

Undefined == [tag |-> "undefined", num |-> 0]
NaN == [tag |-> "NaN", num |-> 0]
Num(n) == [tag |-> "number", num |-> n]
\* A member every object literal inherits from Object.prototype.
Inherited == [tag |-> "function", num |-> 0]
IsNum(v) == v.tag = "number"

\* a + b * c on JavaScript numbers, a and c being finite numbers.
JsLinear(a, b, c) == IF IsNum(b) THEN Num(a + b.num * c) ELSE NaN
\* Every two coordinates count as apart.
JsAlwaysFarther(a, b, d) == TRUE

\* Math.abs(a - b) > d
JsFartherThan(a, b, d) ==
    /\ IsNum(a) /\ IsNum(b)
    /\ (IF a.num >= b.num THEN a.num - b.num ELSE b.num - a.num) > d

-----------------------------------------------------------------------------
(* get_commit_tree: the server's answer to GET /api/commit-tree. *)

\* sha_to_branches.get(sha, []): the branches whose tip abbreviates to sha,
\* in the order `git branch` printed them.
ShaToBranches(r, sha) ==
    SelectSeq(BranchNames,
              LAMBDA b : r.tips[b] # Outside /\ Abbrev(r, FullSha(r.tips[b])) = sha)

\* `git rev-parse HEAD`, cut to ShortLen characters.
CurrentSha(r) == Take(FullSha(r.head), ShortLen)

\* The comparison looks at the characters before the last one only.
IsHeadByPrefix(short_sha, current_sha) ==
    Take(short_sha, ShortLen - 1) = Take(current_sha, ShortLen - 1)

\* "is_head": short_sha == current_sha
IsHeadEntry(short_sha, current_sha) == short_sha = current_sha

\* One entry of "commits", as JSON.parse delivers it: no column, no color.
CommitEntry(r, c) ==
    LET short_sha == Abbrev(r, FullSha(c))
    IN  [sha      |-> short_sha,
         parents  |-> [k \in 1..Len(r.parents[c]) |->
                          Take(Abbrev(r, FullSha(r.parents[c][k])), ShortLen)],
         branches |-> ShaToBranches(r, short_sha),
         is_head  |-> IsHeadEntry(short_sha, CurrentSha(r)),
         column   |-> Undefined,
         color    |-> "undefined"]

GetCommitTree(r) ==
    [commits     |-> [c \in 1..WindowSize(r) |-> CommitEntry(r, c)],
     current_sha |-> CurrentSha(r)]

\* The request fails (HTTP 500) when `git rev-parse HEAD` does.
GetCommitTreeFails(r) == r.head = Unborn

-----------------------------------------------------------------------------
(* drawCommitTree: lanes ("columns"), positions, connecting lines and click
   areas of the canvas.  Text and colours of the theme are not laid out. *)

nodeRadius == 10
verticalSpacing == 60
columnSpacing == 50
startX == 60
startY == 30
branchColors ==
    <<"#60a5fa", "#34d399", "#fbbf24", "#f472b6", "#a78bfa", "#fb923c", "#c084fc">>
\* A line bends when its ends are more than this many pixels apart in x.
curveThreshold == 5

\* branchColors[column % branchColors.length]
BranchColor(column) ==
    IF IsNum(column) THEN branchColors[(column.num % Len(branchColors)) + 1]
    ELSE "undefined"

\* No index: undefined in the page, None in the text front end.
NoIndex == 0

\* An unknown sha falls back to the first commit (commitMap[sha] || 0).
CommitMapOrFirst(commits, sha) ==
    LET hits == {i \in 1..Len(commits) : commits[i].sha = sha}
    IN  IF hits = {} THEN 1 ELSE SetMax(hits)

\* commitMap[sha]: the index of the last commit with that sha, NoIndex for
\* undefined.
CommitMap(commits, sha) ==
    LET hits == {i \in 1..Len(commits) : commits[i].sha = sha}
    IN  IF hits = {} THEN NoIndex ELSE SetMax(hits)

\* Names that an object literal `{}` answers without having been assigned.
ObjectPrototype == {"constructor"}

\* No column is reserved.
UnreservedBranchToColumn == [b \in BranchNameSet |-> Undefined]

\* const branchToColumn = {}; main and master reserved for column 0.
NewBranchToColumn ==
    [b \in BranchNameSet |-> IF b \in {"main", "master"} THEN Num(0) ELSE Undefined]

\* nextColumn outlives the call: it goes on from the columns last drawn.
CarriedNextColumn ==
    IF commitTreeData = <<>> THEN 1
    ELSE 1 + SetMax({0} \cup {commitTreeData[1].commits[i].column.num :
                                  i \in 1..Len(commitTreeData[1].commits)})

\* let nextColumn = 1
NewNextColumn == 1

\* branchToColumn[name]: the own property, else the inherited one.
Lookup(table, name) ==
    IF table[name] # Undefined THEN table[name]
    ELSE IF name \in ObjectPrototype THEN Inherited
    ELSE Undefined

\* The label listed last decides.
LastBranch(commit) == commit.branches[Len(commit.branches)]

\* const mainBranch = commit.branches[0]
MainBranch(commit) == commit.branches[1]

\* First pass, from commit i on: commits with branch labels take the column
\* of their first label.
RECURSIVE FirstPass(_, _, _, _)
FirstPass(commits, table, nextColumn, i) ==
    IF i > Len(commits)
    THEN [commits |-> commits, branchToColumn |-> table, nextColumn |-> nextColumn]
    ELSE IF Len(commits[i].branches) > 0
    THEN LET mainBranch == MainBranch(commits[i])
             unbound == Lookup(table, mainBranch) = Undefined
             table2 == IF unbound
                       THEN [table EXCEPT ![mainBranch] = Num(nextColumn)]
                       ELSE table
             column == Lookup(table2, mainBranch)
         IN  FirstPass([commits EXCEPT ![i].column = column,
                                       ![i].color = BranchColor(column)],
                       table2,
                       IF unbound THEN nextColumn + 1 ELSE nextColumn,
                       i + 1)
    ELSE FirstPass(commits, table, nextColumn, i + 1)

\* The last writer wins.
ParentAlwaysTakesColumn(parent) == TRUE

\* Only a branch label protects a column.
ParentTakesColumnUnlessLabelled(parent) == Len(parent.branches) = 0

\* A parent takes the column of commit i when it has none.
ParentTakesColumn(parent) == parent.column = Undefined

\* commit.parents.forEach of the second pass, from parent k on.
RECURSIVE PropagateToParents(_, _, _)
PropagateToParents(commits, i, k) ==
    IF k > Len(commits[i].parents) THEN commits
    ELSE LET parentIdx == CommitMap(commits, commits[i].parents[k])
         IN  IF parentIdx # NoIndex /\ ParentTakesColumn(commits[parentIdx])
             THEN PropagateToParents(
                      [commits EXCEPT ![parentIdx].column = commits[i].column,
                                      ![parentIdx].color = commits[i].color],
                      i, k + 1)
             ELSE PropagateToParents(commits, i, k + 1)

\* Second pass over commits i..last: a commit with a column hands it to its
\* parents.
RECURSIVE SecondPassOver(_, _, _)
SecondPassOver(commits, i, last) ==
    IF i > last THEN commits
    ELSE IF commits[i].column # Undefined /\ Len(commits[i].parents) > 0
    THEN SecondPassOver(PropagateToParents(commits, i, 1), i + 1, last)
    ELSE SecondPassOver(commits, i + 1, last)

\* Only the newest commit hands its column on.
SecondPassFirstOnly(commits) == SecondPassOver(commits, 1, 1)

\* The pass visits the oldest commit first.
RECURSIVE SecondPassDownFrom(_, _)
SecondPassDownFrom(commits, i) ==
    IF i < 1 THEN commits
    ELSE IF commits[i].column # Undefined /\ Len(commits[i].parents) > 0
    THEN SecondPassDownFrom(PropagateToParents(commits, i, 1), i - 1)
    ELSE SecondPassDownFrom(commits, i - 1)

SecondPassOldestFirst(commits) == SecondPassDownFrom(commits, Len(commits))

SecondPass(commits) == SecondPassOver(commits, 1, Len(commits))

\* Third pass: every commit still without a column goes to column 0.
ThirdPass(commits) ==
    [i \in 1..Len(commits) |->
        IF commits[i].column = Undefined
        THEN [commits[i] EXCEPT !.column = Num(0), !.color = branchColors[1]]
        ELSE commits[i]]

\* The three passes on the commits of a data object.
AssignColumns(commits) ==
    ThirdPass(SecondPass(FirstPass(commits, NewBranchToColumn, NewNextColumn, 1).commits))

\* The oldest commit is drawn at the top.
CommitPositionsReversed(commits) ==
    [i \in 1..Len(commits) |->
        [x |-> JsLinear(startX, commits[i].column, columnSpacing),
         y |-> startY + (Len(commits) - i) * verticalSpacing]]

CommitPositions(commits) ==
    [i \in 1..Len(commits) |->
        [x |-> JsLinear(startX, commits[i].column, columnSpacing),
         y |-> startY + (i - 1) * verticalSpacing]]

\* Only the line to the first parent is drawn.
ParentLinesFirstOnly(commits, pos, i, k) ==
    IF k > 1 \/ k > Len(commits[i].parents) THEN <<>>
    ELSE LET parentIdx == CommitMap(commits, commits[i].parents[k])
         IN  IF parentIdx # NoIndex
             THEN <<[from |-> i, to |-> parentIdx,
                     curved |-> JsFartherThan(pos[i].x, pos[parentIdx].x,
                                              curveThreshold)]>>
             ELSE <<>>

\* The line to parent k of commit i is drawn when the parent is in commitMap.
RECURSIVE ParentLines(_, _, _, _)
ParentLines(commits, pos, i, k) ==
    IF k > Len(commits[i].parents) THEN <<>>
    ELSE LET parentIdx == CommitMap(commits, commits[i].parents[k])
             rest == ParentLines(commits, pos, i, k + 1)
         IN  IF parentIdx # NoIndex
             THEN <<[from |-> i, to |-> parentIdx,
                     curved |-> JsFartherThan(pos[i].x, pos[parentIdx].x,
                                              curveThreshold)]>> \o rest
             ELSE rest

\* The connecting lines, in the order they are stroked.
RECURSIVE ConnectingLines(_, _, _)
ConnectingLines(commits, pos, i) ==
    IF i > Len(commits) THEN <<>>
    ELSE ParentLines(commits, pos, i, 1) \o ConnectingLines(commits, pos, i + 1)

JsPlus(v, d) == IF IsNum(v) THEN Num(v.num + d) ELSE NaN

ClickAreas(pos) ==
    [i \in 1..Len(pos) |->
        [x |-> JsPlus(pos[i].x, 0 - nodeRadius), y |-> pos[i].y - nodeRadius,
         width |-> nodeRadius * 2, height |-> nodeRadius * 2, commit |-> i]]

\* drawCommitTree(data) on a canvas holding the click areas `areas`: the data object with
\* its commits laid out, and what the canvas then holds.  With no commits the
\* function returns before it touches the click areas.
DrawCommitTree(data, areas) ==
    IF Len(data.commits) = 0
    THEN [data |-> data, lines |-> <<>>, clickAreas |-> areas]
    ELSE LET commits == AssignColumns(data.commits)
             pos == CommitPositions(commits)
         IN  [data |-> [data EXCEPT !.commits = commits],
              lines |-> ConnectingLines(commits, pos, 1),
              clickAreas |-> ClickAreas(pos)]

-----------------------------------------------------------------------------
(* GitGraph.build_graph and render_graph: the node list of the text front end. *)

\* head_sha: repo.head.commit.hexsha, NoSha for None.
NoSha == <<>>
HeadSha(r) == IF r.head = Unborn THEN NoSha ELSE FullSha(r.head)

\* branch_commits.get(sha, []): the branches whose tip is the commit.
BranchCommits(r, sha) ==
    SelectSeq(BranchNames,
              LAMBDA b : r.tips[b] # Outside /\ FullSha(r.tips[b]) = sha)

\* The CommitNode of the commit in place c; column has its default.
CommitNode(r, c) ==
    LET sha == FullSha(c)
        parent_shas == [k \in 1..Len(r.parents[c]) |-> FullSha(r.parents[c][k])]
    IN  [sha       |-> sha,
         short_sha |-> Take(sha, ShortLen),
         parents   |-> parent_shas,
         branches  |-> BranchCommits(r, sha),
         is_head   |-> sha = HeadSha(r),
         is_merge  |-> Len(parent_shas) > 1,
         column    |-> 0]

\* node_map[sha]: the index of the node with that sha, NoIndex when absent.
NodeMap(nodeList, sha) ==
    LET hits == {i \in 1..Len(nodeList) : nodeList[i].sha = sha}
    IN  IF hits = {} THEN NoIndex ELSE SetMax(hits)

\* branch_columns holds no column for a branch it maps to NoColumn.
NoColumn == -1

\* The first branch of the node that branch_columns knows, 0 when none.
RECURSIVE FirstKnownBranch(_, _, _)
FirstKnownBranch(branches, branch_columns, k) ==
    IF k > Len(branches) THEN 0
    ELSE IF branch_columns[branches[k]] # NoColumn THEN k
    ELSE FirstKnownBranch(branches, branch_columns, k + 1)

\* _assign_columns, from node i on.
RECURSIVE AssignNodeColumns(_, _, _, _)
AssignNodeColumns(nodeList, branch_columns, next_column, i) ==
    IF i > Len(nodeList) THEN nodeList
    ELSE LET node == nodeList[i]
             known == FirstKnownBranch(node.branches, branch_columns, 1)
         IN  IF Len(node.branches) > 0
             THEN IF known # 0
                  THEN AssignNodeColumns(
                           [nodeList EXCEPT ![i].column = branch_columns[node.branches[known]]],
                           branch_columns, next_column, i + 1)
                  ELSE AssignNodeColumns(
                           [nodeList EXCEPT ![i].column = next_column],
                           [b \in BranchNameSet |->
                               IF b \in Range(node.branches) THEN next_column
                               ELSE branch_columns[b]],
                           next_column + 1, i + 1)
             ELSE LET parentIdx == IF Len(node.parents) > 0
                                   THEN NodeMap(nodeList, node.parents[1])
                                   ELSE NoIndex
                  IN  AssignNodeColumns(
                          [nodeList EXCEPT ![i].column =
                              IF parentIdx # NoIndex THEN nodeList[parentIdx].column ELSE 0],
                          branch_columns, next_column, i + 1)

\* branch_columns and next_column outlive the call: the build goes on from
\* the columns of the nodes the screen holds.
CarriedBuildGraph(r) ==
    AssignNodeColumns(
        [c \in 1..WindowSize(r) |-> CommitNode(r, c)],
        [b \in BranchNameSet |->
            LET held == {i \in 1..Len(nodes) : b \in Range(nodes[i].branches)}
            IN  IF held = {} THEN NoColumn ELSE nodes[SetMax(held)].column],
        IF nodes = <<>> THEN 0
        ELSE 1 + SetMax({nodes[i].column : i \in 1..Len(nodes)}),
        1)

BuildGraph(r) ==
    AssignNodeColumns([c \in 1..WindowSize(r) |-> CommitNode(r, c)],
                      [b \in BranchNameSet |-> NoColumn], 0, 1)

-----------------------------------------------------------------------------
(* The lines of the text graph and the view that holds the cursor.  Line
   numbers and selected_index count from 0, as in the source. *)

\* GraphLine(text, commit_node, is_commit_line); commit_node is <<>> for None.
GraphLine(commit_node, is_commit_line) ==
    [commit_node |-> commit_node, is_commit_line |-> is_commit_line]

\* _build_connector_lines: one line between a commit and the next.
ConnectorLines(current, next_node) == <<GraphLine(<<>>, FALSE)>>

\* The loop of render_graph from node i on.
RECURSIVE RenderFrom(_, _)
RenderFrom(nodeList, i) ==
    IF i > Len(nodeList) THEN <<>>
    ELSE <<GraphLine(<<nodeList[i]>>, TRUE)>>
         \o (IF i < Len(nodeList)
             THEN ConnectorLines(nodeList[i], nodeList[i + 1])
             ELSE <<>>)
         \o RenderFrom(nodeList, i + 1)

RenderGraph(nodeList) ==
    IF nodeList = <<>> THEN <<GraphLine(<<>>, FALSE)>>
    ELSE RenderFrom(nodeList, 1)

\* GraphView.__init__
GraphView(graph_lines) ==
    [graph_lines    |-> graph_lines,
     commit_indices |->
         LET idx == SelectSeq([k \in 1..Len(graph_lines) |-> k],
                      LAMBDA k : /\ graph_lines[k].is_commit_line
                                 /\ graph_lines[k].commit_node # <<>>)
         IN  [k \in 1..Len(idx) |-> idx[k] - 1],
     selected_index |-> 0]

\* The newest node is selected whatever the head is.
NewestIndex(nodeList) == <<0>>

\* for i, node in enumerate(self.nodes): if node.is_head: ... break
\* <<i>> for the first head node, <<>> when the loop ends without one.
HeadIndex(nodeList) ==
    LET heads == {i \in 1..Len(nodeList) : nodeList[i].is_head}
    IN  IF heads = {} THEN <<>>
        ELSE <<(CHOOSE i \in heads : \A j \in heads : i <= j) - 1>>

\* refresh_graph after build_graph: the view on the rendered lines, the head
\* selected.
RefreshedView(nodeList) ==
    LET view == GraphView(RenderGraph(nodeList))
    IN  IF HeadIndex(nodeList) # <<>>
        THEN [view EXCEPT !.selected_index = HeadIndex(nodeList)[1]]
        ELSE view

\* GraphView.get_selected_commit: <<>> for None, else <<the node>>.
GetSelectedCommit(view) ==
    IF 0 <= view.selected_index /\ view.selected_index < Len(view.commit_indices)
    THEN view.graph_lines[view.commit_indices[view.selected_index + 1] + 1].commit_node
    ELSE <<>>

\* The cursor goes down whatever the number of commit lines.
MoveDownUnbounded(view) ==
    [view EXCEPT !.selected_index = view.selected_index + 1]

\* GraphView.move_up
MoveUp(view) ==
    IF view.selected_index > 0
    THEN [view EXCEPT !.selected_index = view.selected_index - 1]
    ELSE view

\* GraphView.move_down
MoveDown(view) ==
    IF view.selected_index < Len(view.commit_indices) - 1
    THEN [view EXCEPT !.selected_index = view.selected_index + 1]
    ELSE view

-----------------------------------------------------------------------------
(* The initial state and the steps. *)

\* getTheme with nothing stored: localStorage.getItem(...) || 'dark'
DefaultTheme == "dark"
Themes == {"dark", "light"}

Init ==
    /\ \/ IsSmallRepo(repo)
       \/ IsLinearRepo(repo)
       \/ IsForkRepo(repo)
    /\ inflight = <<>>
    /\ commitTreeData = <<>>
    /\ canvasLines = <<>>
    /\ clickAreas = <<>>
    /\ nodes = <<>>
    /\ mounted = FALSE
    /\ graph_view = <<>>
    /\ theme = DefaultTheme
    /\ log_output = <<>>
    /\ parsed = <<>>
    /\ found = <<>>
    /\ hgraph = <<>>
    /\ dialog = <<>>
    /\ checked_out = <<>>
    /\ issued = <<>>
    /\ branch_view = <<>>

\* The answer of the server: the commit tree, or an error.
Answer(r) ==
    IF GetCommitTreeFails(r)
    THEN [ok |-> FALSE, data |-> [commits |-> <<>>, current_sha |-> <<>>]]
    ELSE [ok |-> TRUE, data |-> GetCommitTree(r)]

Without(s, k) == [i \in 1..(Len(s) - 1) |-> IF i < k THEN s[i] ELSE s[i + 1]]

\* loadCommitTree up to its await (loadAll: start-up, the 5 s timer, a user
\* action); the server answers from the repository as it is.
LoadCommitTreeRequest ==
    /\ Len(inflight) < MaxPending
    /\ inflight' = Append(inflight, Answer(repo))
    /\ UNCHANGED <<repo, commitTreeData, canvasLines, clickAreas, nodes, mounted,
                   graph_view, theme, otherVars>>

\* loadCommitTree after its await: answers arrive in any order; the data is
\* stored and drawn, and on an error answer api() throws before either.
LoadCommitTreeResponse ==
    \E k \in 1..Len(inflight) :
        /\ inflight' = Without(inflight, k)
        /\ IF inflight[k].ok
           THEN LET drawn == DrawCommitTree(inflight[k].data, clickAreas)
                IN  /\ commitTreeData' = <<drawn.data>>
                    /\ canvasLines' = drawn.lines
                    /\ clickAreas' = drawn.clickAreas
           ELSE UNCHANGED <<commitTreeData, canvasLines, clickAreas>>
        /\ UNCHANGED <<repo, nodes, mounted, graph_view, theme, otherVars>>

\* GraphScreen.refresh_graph (on_mount, action_refresh).  With HEAD unborn
\* head_sha is None; listing the commits may then raise as well, and the
\* screen keeps what it had.
RefreshGraph ==
    /\ \/ /\ nodes' = BuildGraph(repo)
          /\ mounted' = TRUE
          /\ graph_view' = <<RefreshedView(BuildGraph(repo))>>
       \/ /\ repo.head = Unborn
          /\ UNCHANGED <<nodes, mounted, graph_view>>
    /\ UNCHANGED <<repo, inflight, commitTreeData, canvasLines, clickAreas, theme,
                   otherVars>>

\* setTheme(t) (toggleTheme, DOMContentLoaded): the theme is stored and, when
\* a data object is held, drawCommitTree runs on it again, on the commits as
\* the last call left them.
SetTheme(t) ==
    /\ theme' = t
    /\ IF commitTreeData # <<>>
       THEN LET drawn == DrawCommitTree(commitTreeData[1], clickAreas)
            IN  /\ commitTreeData' = <<drawn.data>>
                /\ canvasLines' = drawn.lines
                /\ clickAreas' = drawn.clickAreas
       ELSE UNCHANGED <<commitTreeData, canvasLines, clickAreas>>
    /\ UNCHANGED <<repo, inflight, nodes, mounted, graph_view, otherVars>>

Next ==
    \/ LoadCommitTreeRequest
    \/ LoadCommitTreeResponse
    \/ RefreshGraph
    \/ \E t \in Themes : SetTheme(t)

Spec == Init /\ [][Next]_vars

-----------------------------------------------------------------------------
(* Refreshes over a repository that changes between them. *)

\* Two branches on the two newest commits of the forked history, or one
\* branch on the newer commit of a history of two, with HEAD possibly unborn.
IsChangingRepo(r) ==
    \/ \E a, b \in BranchNameSet :
          /\ a # b
          /\ r = Repo(ForkParents,
                      [n \in BranchNameSet |->
                          IF n = a THEN 1 ELSE IF n = b THEN 2 ELSE Outside],
                      1, ShortLen)
    \/ \E a \in BranchNameSet : \E h \in {1, Unborn} :
          r = Repo(LinearParents(2, TRUE),
                   [n \in BranchNameSet |-> IF n = a THEN 1 ELSE Outside],
                   h, ShortLen)

InitChanging ==
    /\ IsChangingRepo(repo)
    /\ inflight = <<>>
    /\ commitTreeData = <<>>
    /\ canvasLines = <<>>
    /\ clickAreas = <<>>
    /\ nodes = <<>>
    /\ mounted = FALSE
    /\ graph_view = <<>>
    /\ theme = DefaultTheme
    /\ log_output = <<>>
    /\ parsed = <<>>
    /\ found = <<>>
    /\ hgraph = <<>>
    /\ dialog = <<>>
    /\ checked_out = <<>>
    /\ issued = <<>>
    /\ branch_view = <<>>

\* The user commits, moves or renames branches: REPO_PATH holds another
\* history at the next request.
RepoChange ==
    /\ IsChangingRepo(repo')
    /\ repo' # repo
    /\ UNCHANGED <<inflight, commitTreeData, canvasLines, clickAreas, nodes,
                   mounted, graph_view, theme, otherVars>>

NextChanging ==
    \/ RepoChange
    \/ LoadCommitTreeRequest
    \/ LoadCommitTreeResponse
    \/ RefreshGraph

SpecChanging == InitChanging /\ [][NextChanging]_vars

-----------------------------------------------------------------------------
(* The parsing loop of get_commit_tree, on any `git log` output. *)

\* The characters of a line: the separator of the format and another one.
LineChars == {"|", "a"}

RECURSIVE SeqsUpTo(_, _)
SeqsUpTo(S, k) ==
    IF k = 0 THEN {<<>>}
    ELSE LET shorter == SeqsUpTo(S, k - 1)
         IN  shorter \cup {Append(q, x) : q \in shorter, x \in S}

LogLines == SeqsUpTo(LineChars, MaxLineLen)
LogOutputs == SeqsUpTo(LogLines, MaxLines)

\* line.split('|', n)
RECURSIVE Split(_, _)
Split(line, n) ==
    LET bars == {i \in 1..Len(line) : line[i] = "|"}
    IN  IF n = 0 \/ bars = {} THEN <<line>>
        ELSE LET k == CHOOSE i \in bars : \A j \in bars : i <= j
             IN  <<SubSeq(line, 1, k - 1)>>
                     \o Split(SubSeq(line, k + 1, Len(line)), n - 1)

\* The number of fields a line must have.
FieldCount == 7

\* The loop over log_output.split('\n'), from line i on: the commits appended.
RECURSIVE ParseLog(_, _)
ParseLog(lines, i) ==
    IF i > Len(lines) THEN <<>>
    ELSE IF lines[i] = <<>> THEN ParseLog(lines, i + 1)
    ELSE LET parts == Split(lines[i], FieldCount - 1)
         IN  IF Len(parts) >= FieldCount
             THEN <<[sha     |-> parts[2],
                     fullSha |-> parts[1],
                     parents |-> IF parts[3] = <<>> THEN <<>>
                                 ELSE <<Take(parts[3], ShortLen)>>,
                     line    |-> i]>> \o ParseLog(lines, i + 1)
             ELSE ParseLog(lines, i + 1)

NoRepo == Repo(<<>>, [b \in BranchNameSet |-> Outside], Unborn, ShortLen)

InitLog ==
    /\ repo = NoRepo
    /\ inflight = <<>>
    /\ commitTreeData = <<>>
    /\ canvasLines = <<>>
    /\ clickAreas = <<>>
    /\ nodes = <<>>
    /\ mounted = FALSE
    /\ graph_view = <<>>
    /\ theme = DefaultTheme
    /\ log_output \in LogOutputs
    /\ parsed = <<>>
    /\ found = <<>>
    /\ hgraph = <<>>
    /\ dialog = <<>>
    /\ checked_out = <<>>
    /\ issued = <<>>
    /\ branch_view = <<>>

\* The loop runs to its end: nothing in it raises.
ParseLogOutput ==
    /\ parsed = <<>>
    /\ parsed' = <<[status |-> "success", commits |-> ParseLog(log_output, 1)]>>
    /\ UNCHANGED <<repo, inflight, commitTreeData, canvasLines, clickAreas, nodes,
                   mounted, graph_view, theme, log_output, found, hgraph, screenVars,
                   issued, branch_view>>

NextLog == ParseLogOutput

SpecLog == InitLog /\ [][NextLog]_vars

-----------------------------------------------------------------------------
(* GitGraph.get_node_by_sha on the nodes of a build. *)

\* The node's sha and the argument are the same string.
SameSha(full, sha) == full = sha

\* full.startswith(sha)
StartsWith(full, sha) ==
    /\ Len(sha) <= Len(full)
    /\ \A j \in 1..Len(sha) : full[j] = sha[j]

\* get_node_by_sha(nodes, sha), from node i on: the index of the node
\* returned, NoIndex for None.
RECURSIVE GetNodeBySha(_, _, _)
GetNodeBySha(nodeList, sha, i) ==
    IF i > Len(nodeList) THEN NoIndex
    ELSE IF StartsWith(nodeList[i].sha, sha) \/ nodeList[i].short_sha = sha
    THEN i
    ELSE GetNodeBySha(nodeList, sha, i + 1)

\* What a user types for a commit: a full or shortened object name, of a
\* commit of the window or of none, or a longer string.
ShaArguments ==
    UNION {{Take(FullSha(c), k) : k \in 0..FullLen} \cup {Append(FullSha(c), 0)} :
               c \in 0..(MaxCommits + 2)}

InitLookup ==
    /\ IsForkRepo(repo) \/ (IsLinearRepo(repo) /\ repo.abbrev = ShortLen)
    /\ inflight = <<>>
    /\ commitTreeData = <<>>
    /\ canvasLines = <<>>
    /\ clickAreas = <<>>
    /\ nodes = BuildGraph(repo)
    /\ mounted = TRUE
    /\ graph_view = <<RefreshedView(BuildGraph(repo))>>
    /\ theme = DefaultTheme
    /\ log_output = <<>>
    /\ parsed = <<>>
    /\ found = <<>>
    /\ hgraph = <<>>
    /\ dialog = <<>>
    /\ checked_out = <<>>
    /\ issued = <<>>
    /\ branch_view = <<>>

LookupNode(sha) ==
    /\ found' = <<[sha |-> sha, node |-> GetNodeBySha(nodes, sha, 1)]>>
    /\ UNCHANGED <<repo, inflight, commitTreeData, canvasLines, clickAreas, nodes,
                   mounted, graph_view, theme, log_output, parsed, hgraph,
                   screenVars, issued, branch_view>>

NextLookup == \E sha \in ShaArguments : LookupNode(sha)

SpecLookup == InitLookup /\ [][NextLookup]_vars

-----------------------------------------------------------------------------
(* HorizontalGitGraph.build_graph: time runs from left to right, every
   branch has a row. *)

\* self.repo.branches: the local branches, by name.
RepoBranches(r) == SelectSeq(BranchNames, LAMBDA b : r.tips[b] # Outside)

\* The sequence of the members of S in increasing order.
RECURSIVE Ascending(_)
Ascending(S) ==
    IF S = {} THEN <<>>
    ELSE LET least == CHOOSE x \in S : \A y \in S : x <= y
         IN  <<least>> \o Ascending(S \ {least})

\* iter_commits(branch.name): the tip and what it reaches, newest first.
BranchCommitList(r, b) ==
    Ascending({d \in 1..WindowSize(r) :
                  \/ d = r.tips[b]
                  \/ Reaches(r.parents, r.tips[b], d, WindowSize(r))})

\* nodes: the commits in the order the loop over the branches first meets
\* them, from branch k on, `met` being those already in node_map.
RECURSIVE MeetingOrder(_, _, _)
MeetingOrder(r, k, met) ==
    IF k > Len(RepoBranches(r)) THEN <<>>
    ELSE LET list == BranchCommitList(r, RepoBranches(r)[k])
             new == SelectSeq(list, LAMBDA c : c \notin met)
         IN  new \o MeetingOrder(r, k + 1, met \cup Range(list))

\* node.branches: the branches that reach the commit, in the loop's order.
BranchesOf(r, c) ==
    SelectSeq(RepoBranches(r), LAMBDA b : c \in Range(BranchCommitList(r, b)))

\* Only the first parent of a node learns of the child.
ChildrenOfFirstParent(r, order, c) ==
    LET kids == SelectSeq(order, LAMBDA d :
                    Len(r.parents[d]) > 0 /\ r.parents[d][1] = c)
    IN  [k \in 1..Len(kids) |-> FullSha(kids[k])]

\* node.children: the nodes naming the commit as a parent, in node order.
ChildrenOf(r, order, c) ==
    LET kids == SelectSeq(order, LAMBDA d : c \in Range(r.parents[d]))
    IN  [k \in 1..Len(kids) |-> FullSha(kids[k])]

\* The name alone is the key.
NameKey(b) == <<0, CHOOSE k \in 1..Len(BranchNames) : BranchNames[k] = b>>

\* key=lambda b: (b not in ['main', 'master'], b); a name is compared by its
\* place among the names in string order.
BranchKey(b) ==
    <<IF b \in {"main", "master"} THEN 0 ELSE 1,
      CHOOSE k \in 1..Len(BranchNames) : BranchNames[k] = b>>

KeyBefore(a, b) == a[1] < b[1] \/ (a[1] = b[1] /\ a[2] <= b[2])

\* sorted(branches.keys(), key=...)
RECURSIVE SortedBranches(_)
SortedBranches(names) ==
    IF names = {} THEN <<>>
    ELSE LET first == CHOOSE a \in names :
                          \A b \in names : KeyBefore(BranchKey(a), BranchKey(b))
         IN  <<first>> \o SortedBranches(names \ {first})

\* No row: the name is not in row_assignments.
NoRow == -1

\* row_assignments
RowAssignments(r) ==
    LET sorted_branches == SortedBranches(Range(RepoBranches(r)))
    IN  [b \in BranchNameSet |->
            IF b \in Range(sorted_branches)
            THEN (CHOOSE k \in 1..Len(sorted_branches) : sorted_branches[k] = b) - 1
            ELSE NoRow]

\* node.timestamp: the log lists newer commits first.
Timestamp(r, c) == (WindowSize(r) - c) \div r.tick

\* Commits of one timestamp share a place.
ColumnByTimestampOnly(r, order, c) ==
    Cardinality({d \in Range(order) : Timestamp(r, d) < Timestamp(r, c)})

\* node.col: the place of the commit when node_map's values, in the order
\* they were inserted, are sorted by timestamp; the sort is stable.
ColumnOf(r, order, c) ==
    LET place(d) == CHOOSE k \in 1..Len(order) : order[k] = d
    IN  Cardinality({d \in Range(order) :
            \/ Timestamp(r, d) < Timestamp(r, c)
            \/ Timestamp(r, d) = Timestamp(r, c) /\ place(d) < place(c)})

\* build_graph: the nodes, the commits of each branch and, from
\* _assign_positions, the row of each branch.
HorizontalBuild(r) ==
    LET order == MeetingOrder(r, 1, {})
        rows == RowAssignments(r)
    IN  [nodes |->
            [i \in 1..Len(order) |->
                LET c == order[i]
                IN  [sha       |-> FullSha(c),
                     short_sha |-> Take(FullSha(c), ShortLen),
                     parents   |-> [k \in 1..Len(r.parents[c]) |->
                                       FullSha(r.parents[c][k])],
                     children  |-> ChildrenOf(r, order, c),
                     branches  |-> BranchesOf(r, c),
                     is_head   |-> FullSha(c) = HeadSha(r),
                     is_merge  |-> Len(r.parents[c]) > 1,
                     row       |-> IF Len(BranchesOf(r, c)) > 0
                                   THEN IF rows[BranchesOf(r, c)[1]] # NoRow
                                        THEN rows[BranchesOf(r, c)[1]]
                                        ELSE 0
                                   ELSE 0,
                     col       |-> ColumnOf(r, order, c)]],
         branches |-> [b \in Range(RepoBranches(r)) |->
                         [k \in 1..Len(BranchCommitList(r, b)) |->
                             FullSha(BranchCommitList(r, b)[k])]],
         row_assignments |-> rows]

InitHorizontal ==
    /\ \/ IsSmallRepo(repo)
       \/ IsForkRepo(repo)
       \/ IsQuickForkRepo(repo)
       \/ IsLinearRepo(repo) /\ repo.abbrev = ShortLen
    /\ inflight = <<>>
    /\ commitTreeData = <<>>
    /\ canvasLines = <<>>
    /\ clickAreas = <<>>
    /\ nodes = <<>>
    /\ mounted = FALSE
    /\ graph_view = <<>>
    /\ theme = DefaultTheme
    /\ log_output = <<>>
    /\ parsed = <<>>
    /\ found = <<>>
    /\ hgraph = <<>>
    /\ dialog = <<>>
    /\ checked_out = <<>>
    /\ issued = <<>>
    /\ branch_view = <<>>

BuildHorizontal ==
    /\ hgraph' = <<HorizontalBuild(repo)>>
    /\ UNCHANGED <<repo, inflight, commitTreeData, canvasLines, clickAreas, nodes,
                   mounted, graph_view, theme, log_output, parsed, found,
                   screenVars, issued, branch_view>>

NextHorizontal == BuildHorizontal

SpecHorizontal == InitHorizontal /\ [][NextHorizontal]_vars

-----------------------------------------------------------------------------
(* The horizontal screen: the list of branches and the selected one. *)

\* get_branches_list: every branch with commits, with its latest commit, in
\* the order of the branches dictionary.
GetBranchesList(r, build) ==
    LET names == SelectSeq(RepoBranches(r),
                           LAMBDA b : Len(build.branches[b]) > 0)
    IN  [k \in 1..Len(names) |->
            [branch_name |-> names[k],
             commit |-> build.nodes[CHOOSE i \in 1..Len(build.nodes) :
                            build.nodes[i].sha = build.branches[names[k]][1]]]]

\* HorizontalGraphView.__init__
HorizontalGraphView(branches_list) ==
    [branches_list |-> branches_list, selected_branch_index |-> 0]

\* refresh_graph after build_graph: the view on the list of branches, the
\* first branch whose latest commit is the head selected.
HorizontalRefreshedView(r, build) ==
    LET view == HorizontalGraphView(GetBranchesList(r, build))
        heads == {i \in 1..Len(view.branches_list) :
                     view.branches_list[i].commit.is_head}
    IN  IF heads = {} THEN view
        ELSE [view EXCEPT !.selected_branch_index =
                 (CHOOSE i \in heads : \A j \in heads : i <= j) - 1]

\* HorizontalGraphView.get_selected_branch: <<>> for None.
GetSelectedBranch(view) ==
    IF /\ 0 <= view.selected_branch_index
       /\ view.selected_branch_index < Len(view.branches_list)
    THEN <<view.branches_list[view.selected_branch_index + 1]>>
    ELSE <<>>

\* HorizontalGraphView.move_to_next_branch
MoveToNextBranch(view) ==
    IF view.branches_list # <<>>
    THEN [view EXCEPT !.selected_branch_index =
             (view.selected_branch_index + 1) % Len(view.branches_list)]
    ELSE view

\* The selection stops at the first branch.
MoveToPrevBranchNoWrap(view) ==
    IF view.branches_list # <<>> /\ view.selected_branch_index > 0
    THEN [view EXCEPT !.selected_branch_index = view.selected_branch_index - 1]
    ELSE view

\* HorizontalGraphView.move_to_prev_branch; Python's % has the sign of the
\* divisor, as % has here.
MoveToPrevBranch(view) ==
    IF view.branches_list # <<>>
    THEN [view EXCEPT !.selected_branch_index =
             (view.selected_branch_index - 1) % Len(view.branches_list)]
    ELSE view

\* A line of up to MaxLine commits with any branches on it and any HEAD.
MaxLine == 2

IsBranchyRepo(r) ==
    \E n \in 0..MaxLine : \E t \in [BranchNameSet -> 0..n] : \E h \in Heads(n) :
        r = Repo(LinearParents(n, TRUE), t, h, ShortLen)

InitBranches ==
    /\ IsBranchyRepo(repo)
    /\ inflight = <<>>
    /\ commitTreeData = <<>>
    /\ canvasLines = <<>>
    /\ clickAreas = <<>>
    /\ nodes = <<>>
    /\ mounted = FALSE
    /\ graph_view = <<>>
    /\ theme = DefaultTheme
    /\ log_output = <<>>
    /\ parsed = <<>>
    /\ found = <<>>
    /\ hgraph = <<>>
    /\ dialog = <<>>
    /\ checked_out = <<>>
    /\ issued = <<>>
    /\ branch_view = <<>>

branchesUnchanged ==
    <<repo, inflight, commitTreeData, canvasLines, clickAreas, nodes, mounted,
      graph_view, theme, log_output, parsed, found, screenVars, issued>>

\* HorizontalGraphScreen.refresh_graph (on_mount, action_refresh)
HorizontalRefresh ==
    /\ hgraph' = <<HorizontalBuild(repo)>>
    /\ branch_view' = <<HorizontalRefreshedView(repo, HorizontalBuild(repo))>>
    /\ UNCHANGED branchesUnchanged

\* HorizontalGraphScreen.action_next_branch
ActionNextBranch ==
    /\ branch_view' = IF branch_view # <<>>
                      THEN <<MoveToNextBranch(branch_view[1])>>
                      ELSE branch_view
    /\ UNCHANGED <<hgraph, branchesUnchanged>>

\* HorizontalGraphScreen.action_prev_branch
ActionPrevBranch ==
    /\ branch_view' = IF branch_view # <<>>
                      THEN <<MoveToPrevBranch(branch_view[1])>>
                      ELSE branch_view
    /\ UNCHANGED <<hgraph, branchesUnchanged>>

NextBranches == HorizontalRefresh \/ ActionNextBranch \/ ActionPrevBranch

SpecBranches == InitBranches /\ [][NextBranches]_vars

-----------------------------------------------------------------------------
(* drawCommitTree called on one data object after another, a data object
   without commits among them. *)

\* A data object with an empty commit list.
EmptyData == [commits |-> <<>>, current_sha |-> <<>>]

InitDraw ==
    /\ repo = NoRepo
    /\ inflight = <<>>
    /\ commitTreeData = <<>>
    /\ canvasLines = <<>>
    /\ clickAreas = <<>>
    /\ nodes = <<>>
    /\ mounted = FALSE
    /\ graph_view = <<>>
    /\ theme = DefaultTheme
    /\ log_output = <<>>
    /\ parsed = <<>>
    /\ found = <<>>
    /\ hgraph = <<>>
    /\ dialog = <<>>
    /\ checked_out = <<>>
    /\ issued = <<>>
    /\ branch_view = <<>>

\* commitTreeData = data; drawCommitTree(data)
DrawData(data) ==
    LET drawn == DrawCommitTree(data, clickAreas)
    IN  /\ commitTreeData' = <<drawn.data>>
        /\ canvasLines' = drawn.lines
        /\ clickAreas' = drawn.clickAreas
        /\ UNCHANGED <<repo, inflight, nodes, mounted, graph_view, theme,
                       otherVars>>

\* The data object of a forked history, or of a line of two commits.
DrawCommits ==
    \/ \E t \in TipMaps(Len(ForkParents)) :
          DrawData(GetCommitTree(Repo(ForkParents, t, 1, ShortLen)))
    \/ \E t \in TipMaps(2) :
          DrawData(GetCommitTree(Repo(LinearParents(2, TRUE), t, 1, ShortLen)))

DrawNoCommits == DrawData(EmptyData)

NextDraw == DrawCommits \/ DrawNoCommits

SpecDraw == InitDraw /\ [][NextDraw]_vars

-----------------------------------------------------------------------------
(* Several refreshes of the commit tree outstanding at once, while commits
   are made. *)

MaxOutstanding == 2

\* A line of up to MaxCommits commits, HEAD at the newest, which main or
\* feature points to.
IsGrowingRepo(r) ==
    \E n \in 1..MaxCommits : \E a \in {"main", "feature"} :
        r = Repo(LinearParents(n, TRUE),
                 [b \in BranchNameSet |-> IF b = a THEN 1 ELSE Outside],
                 1, ShortLen)

InitRace ==
    /\ IsGrowingRepo(repo)
    /\ inflight = <<>>
    /\ commitTreeData = <<>>
    /\ canvasLines = <<>>
    /\ clickAreas = <<>>
    /\ nodes = <<>>
    /\ mounted = FALSE
    /\ graph_view = <<>>
    /\ theme = DefaultTheme
    /\ log_output = <<>>
    /\ parsed = <<>>
    /\ found = <<>>
    /\ hgraph = <<>>
    /\ dialog = <<>>
    /\ checked_out = <<>>
    /\ issued = <<>>
    /\ branch_view = <<>>

\* Commits are made, a branch is renamed.
GrowingRepoChange ==
    /\ IsGrowingRepo(repo')
    /\ repo' # repo
    /\ UNCHANGED <<inflight, commitTreeData, canvasLines, clickAreas, nodes,
                   mounted, graph_view, theme, otherVars>>

\* loadAll (the 5 s timer, a user action) calls loadCommitTree, which runs up
\* to its await whatever is outstanding; issued remembers the answer to this
\* request.
LoadAll ==
    /\ Len(inflight) < MaxOutstanding
    /\ inflight' = Append(inflight, Answer(repo))
    /\ issued' = <<Answer(repo)>>
    /\ UNCHANGED <<repo, commitTreeData, canvasLines, clickAreas, nodes, mounted,
                   graph_view, theme, sideVars, screenVars>>

NextRace == GrowingRepoChange \/ LoadAll \/ LoadCommitTreeResponse

SpecRace == InitRace /\ [][NextRace]_vars

-----------------------------------------------------------------------------
(* The keys of the graph screen and its confirmation dialog. *)

MaxCheckouts == 2

\* Histories for the screen: a line of up to MaxCommits commits under main
\* with any HEAD, and the repositories of IsChangingRepo.
IsScreenRepo(r) ==
    \/ \E n \in 0..MaxCommits : \E h \in Heads(n) :
          r = Repo(LinearParents(n, TRUE),
                   [b \in BranchNameSet |->
                       IF b = "main" /\ n > 0 THEN 1 ELSE Outside],
                   h, ShortLen)
    \/ IsChangingRepo(r)

InitScreen ==
    /\ IsScreenRepo(repo)
    /\ inflight = <<>>
    /\ commitTreeData = <<>>
    /\ canvasLines = <<>>
    /\ clickAreas = <<>>
    /\ nodes = <<>>
    /\ mounted = FALSE
    /\ graph_view = <<>>
    /\ theme = DefaultTheme
    /\ log_output = <<>>
    /\ parsed = <<>>
    /\ found = <<>>
    /\ hgraph = <<>>
    /\ dialog = <<>>
    /\ checked_out = <<>>
    /\ issued = <<>>
    /\ branch_view = <<>>

pageVars == <<inflight, commitTreeData, canvasLines, clickAreas, theme,
              sideVars, issued>>

\* The dialog is modal: the keys of the graph screen act when none is shown.
\* on_mount, action_refresh
ScreenRefresh == dialog = <<>> /\ RefreshGraph

\* GraphScreen.action_cursor_up
ActionCursorUp ==
    /\ dialog = <<>>
    /\ graph_view' = IF graph_view # <<>> THEN <<MoveUp(graph_view[1])>>
                     ELSE graph_view
    /\ UNCHANGED <<repo, nodes, mounted, pageVars, screenVars>>

\* GraphScreen.action_cursor_down
ActionCursorDown ==
    /\ dialog = <<>>
    /\ graph_view' = IF graph_view # <<>> THEN <<MoveDown(graph_view[1])>>
                     ELSE graph_view
    /\ UNCHANGED <<repo, nodes, mounted, pageVars, screenVars>>

\* GraphScreen.action_goto_commit: the dialog is pushed for the selected
\* commit; without a view or a selected commit nothing is pushed.
ActionGotoCommit ==
    /\ dialog = <<>>
    /\ dialog' = IF graph_view # <<>> /\ GetSelectedCommit(graph_view[1]) # <<>>
                 THEN GetSelectedCommit(graph_view[1])
                 ELSE dialog
    /\ UNCHANGED <<repo, nodes, mounted, graph_view, pageVars, checked_out>>

\* Every button confirms.
DismissalAlwaysConfirmed(button, commit) ==
    <<[confirmed |-> TRUE, commit |-> commit]>>

\* ConfirmScreen.on_button_pressed: what the dialog is dismissed with, <<>>
\* for None.
Dismissal(button, commit) ==
    IF button = "yes" THEN <<[confirmed |-> TRUE, commit |-> commit]>> ELSE <<>>

\* The repository after `git checkout <sha>`: HEAD is at that commit.
Checkout(r, sha) ==
    [r EXCEPT !.head = CHOOSE c \in 1..WindowSize(r) : FullSha(c) = sha]

\* A button of the dialog is pressed and _handle_goto_commit runs on what the
\* dialog was dismissed with.  On "yes" the commit is checked out and the
\* graph refreshed; when Git refuses the checkout the screen keeps its graph.
ButtonPressed(button) ==
    /\ dialog # <<>>
    /\ dialog' = <<>>
    /\ LET result == Dismissal(button, dialog[1])
       IN  IF result # <<>> /\ result[1].confirmed
           THEN /\ Len(checked_out) < MaxCheckouts
                /\ \/ /\ checked_out' = Append(checked_out,
                              [sha |-> result[1].commit.sha, ok |-> TRUE])
                      /\ repo' = Checkout(repo, result[1].commit.sha)
                      /\ nodes' = BuildGraph(repo')
                      /\ mounted' = TRUE
                      /\ graph_view' = <<RefreshedView(BuildGraph(repo'))>>
                   \/ /\ checked_out' = Append(checked_out,
                              [sha |-> result[1].commit.sha, ok |-> FALSE])
                      /\ UNCHANGED <<repo, nodes, mounted, graph_view>>
           ELSE UNCHANGED <<repo, nodes, mounted, graph_view, checked_out>>
    /\ UNCHANGED pageVars

Buttons == {"yes", "cancel"}

NextScreen ==
    \/ ScreenRefresh
    \/ ActionCursorUp
    \/ ActionCursorDown
    \/ ActionGotoCommit
    \/ \E button \in Buttons : ButtonPressed(button)

SpecScreen == InitScreen /\ [][NextScreen]_vars

-----------------------------------------------------------------------------
(* What the page shows. *)

Drawn == commitTreeData # <<>>
Commits == commitTreeData[1].commits
Window == 1..Len(Commits)

Labelled(commit) == Len(commit.branches) > 0
FirstLabel(commit) == commit.branches[1]

\* The data object as the server sent it.
Snapshot(data) ==
    [commits |-> [i \in 1..Len(data.commits) |->
                     [data.commits[i] EXCEPT !.column = Undefined,
                                             !.color = "undefined"]],
     current_sha |-> data.current_sha]

\* Lane, colour, position and head flag of every node, and the lines.
Layout ==
    [nodes |-> [i \in Window |->
                   [column |-> Commits[i].column, color |-> Commits[i].color,
                    pos |-> CommitPositions(Commits)[i],
                    is_head |-> Commits[i].is_head]],
     lines |-> canvasLines]

\* The parent id resolves to a node of the window.
InWindow(commits, sha) == \E j \in 1..Len(commits) : commits[j].sha = sha

\* The index of the node with that id.
IndexOf(commits, sha) == CHOOSE j \in 1..Len(commits) : commits[j].sha = sha

LinesFrom(i) == SelectSeq(canvasLines, LAMBDA l : l.from = i)

-----------------------------------------------------------------------------
(* C1: Determinism.  A build of a snapshot on a page that already shows a
   build of the same snapshot yields the same lane, colour, position and
   head flag for every node and the same lines with the same kinds. *)
DeterministicBuild ==
    [][(/\ Drawn
        /\ commitTreeData' # <<>>
        /\ Snapshot(commitTreeData'[1]) = Snapshot(commitTreeData[1]))
       => Layout' = Layout]_vars

\* The page shows a build with a branch lane, and the answer to a second
\* request for the same snapshot is about to be built.
DeterministicBuildWitness ==
    /\ Drawn
    /\ \E i \in Window : Commits[i].column = Num(1)
    /\ Len(canvasLines) > 0
    /\ Len(inflight) > 0
    /\ inflight[1].ok
    /\ inflight[1].data = Snapshot(commitTreeData[1])

(* C2: Trunk stability.  Every node whose first branch label is "main" has
   lane 0 after the build, whatever was encountered before it. *)
TrunkStability ==
    Drawn => \A i \in Window :
        (Labelled(Commits[i]) /\ FirstLabel(Commits[i]) = "main")
            => Commits[i].column = Num(0)

\* main is met after another branch that got lane 1, and is a parent of it.
TrunkStabilityWitness ==
    /\ Drawn
    /\ \E i, j \in Window :
          /\ i < j
          /\ Labelled(Commits[i]) /\ Commits[i].column = Num(1)
          /\ Labelled(Commits[j]) /\ FirstLabel(Commits[j]) = "main"
          /\ Commits[j].column = Num(0)

(* C3: Branch scenario.  For the build order [C4 (feature), C3 (main), C2,
   C1] with C4 and C3 children of C2: C4 has lane 1, C3 lane 0, and C2 takes
   lane 1 from C4, the first writer, so C4->C2 is straight and C3->C2 curved.
   With C3 listed before C4, C2 takes lane 0 from C3 and C4->C2 is curved. *)
ForkScenario(first, second) ==
    /\ Drawn
    /\ Len(Commits) = 4
    /\ Commits[1].branches = <<first>> /\ Commits[2].branches = <<second>>
    /\ Commits[3].branches = <<>> /\ Commits[4].branches = <<>>
    /\ Commits[1].parents = <<Commits[3].sha>>
    /\ Commits[2].parents = <<Commits[3].sha>>
    /\ Commits[3].parents = <<Commits[4].sha>>
    /\ Commits[4].parents = <<>>

Line(i, j, curved) ==
    \E k \in 1..Len(canvasLines) :
        canvasLines[k] = [from |-> i, to |-> j, curved |-> curved]

BranchScenario ==
    /\ ForkScenario("feature", "main") =>
          /\ Commits[1].column = Num(1)
          /\ Commits[2].column = Num(0)
          /\ Commits[3].column = Num(1)
          /\ Line(1, 3, FALSE)
          /\ Line(2, 3, TRUE)
    /\ ForkScenario("main", "feature") =>
          /\ Commits[2].column = Num(1)
          /\ Commits[1].column = Num(0)
          /\ Commits[3].column = Num(0)
          /\ Line(2, 3, TRUE)
          /\ Line(1, 3, FALSE)

BranchScenarioWitness ==
    /\ ForkScenario("feature", "main")
    /\ Commits[3].column = Num(1)
    /\ Len(canvasLines) = 3

\* The claim as stated: C2 on lane 0 and C4->C2 curved in the order C4, C3.
BranchScenarioAsClaimed ==
    ForkScenario("feature", "main") =>
        /\ Commits[1].column = Num(1)
        /\ Commits[2].column = Num(0)
        /\ Commits[3].column = Num(0)
        /\ Line(1, 3, TRUE)

(* C4: Linear history.  When each revision's only parent is the next one in
   the list and only the newest carries branch labels, all nodes end on the
   lane of the newest, the lane bound to its first label. *)
IsLinearWindow ==
    /\ Drawn
    /\ \A i \in Window :
          /\ i < Len(Commits) => Commits[i].parents = <<Commits[i + 1].sha>>
          /\ i = Len(Commits) =>
                \A k \in 1..Len(Commits[i].parents) :
                    ~InWindow(Commits, Commits[i].parents[k])
          /\ i > 1 => ~Labelled(Commits[i])

LinearHistory ==
    IsLinearWindow =>
        /\ \A i \in Window : Commits[i].column = Commits[1].column
        /\ Labelled(Commits[1]) =>
              Commits[1].column =
                  Lookup(FirstPass(Snapshot(commitTreeData[1]).commits,
                                   NewBranchToColumn, NewNextColumn,
                                   1).branchToColumn,
                         FirstLabel(Commits[1]))

LinearHistoryWitness ==
    /\ IsLinearWindow
    /\ Len(Commits) > 2
    /\ Commits[1].column = Num(1)
    /\ Commits[Len(Commits)].column = Num(1)

(* C5: Merge edges.  A node with exactly two parent ids produces one line per
   parent id that resolves to a node of the window, in the order of the
   parent ids: exactly two when both resolve. *)
ResolvedParents(i) ==
    SelectSeq(Commits[i].parents, LAMBDA sha : InWindow(Commits, sha))

MergeEdges ==
    Drawn => \A i \in Window :
        Len(Commits[i].parents) = 2 =>
            /\ Len(LinesFrom(i)) = Len(ResolvedParents(i))
            /\ \A k \in 1..Len(LinesFrom(i)) :
                  Commits[LinesFrom(i)[k].to].sha = ResolvedParents(i)[k]

MergeEdgesWitness ==
    /\ Drawn
    /\ \E i \in Window :
          /\ Len(Commits[i].parents) = 2
          /\ Len(ResolvedParents(i)) = 2
          /\ Len(LinesFrom(i)) = 2
          /\ LinesFrom(i)[1].to # LinesFrom(i)[2].to

\* The claim as stated: two lines from every node with two parent ids.
MergeEdgesAsClaimed ==
    Drawn => \A i \in Window :
        Len(Commits[i].parents) = 2 => Len(LinesFrom(i)) = 2

(* C6: Head uniqueness.  When the reported head id is the id of a node of
   the window, that node and no other has is_head; when it is the id of no
   node, or no head is reported, no node has is_head.  This holds of the data
   of get_commit_tree and of the nodes of GitGraph.build_graph. *)
HeadsOf(list) == {i \in 1..Len(list) : list[i].is_head}
WithId(list, sha) == {i \in 1..Len(list) : list[i].sha = sha}

OneHead(list, head_id) ==
    IF WithId(list, head_id) # {}
    THEN Cardinality(HeadsOf(list)) = 1 /\ HeadsOf(list) = WithId(list, head_id)
    ELSE HeadsOf(list) = {}

HeadUniqueness ==
    /\ Drawn => OneHead(Commits, commitTreeData[1].current_sha)
    /\ mounted => OneHead(nodes, HeadSha(repo))

\* Both front ends show a window of three or more commits whose head is not
\* the newest one.
HeadUniquenessWitness ==
    /\ Drawn /\ mounted
    /\ Len(Commits) > 2 /\ Len(nodes) > 2
    /\ ~Commits[1].is_head /\ HeadsOf(Commits) # {}
    /\ ~nodes[1].is_head /\ HeadsOf(nodes) # {}

(* C7: Dangling-parent tolerance.  A parent id that names no node of the
   window is skipped: the lines are exactly the (node, parent id) pairs whose
   parent id resolves, in order, and the lanes are those of the same window
   with the dangling parent ids removed. *)
RECURSIVE ResolvedCount(_)
ResolvedCount(i) ==
    IF i > Len(Commits) THEN 0
    ELSE Len(ResolvedParents(i)) + ResolvedCount(i + 1)

WithoutDangling(commits) ==
    [i \in 1..Len(commits) |->
        [commits[i] EXCEPT !.parents =
            SelectSeq(commits[i].parents, LAMBDA sha : InWindow(commits, sha))]]

Columns(commits) == [i \in 1..Len(commits) |-> commits[i].column]

DanglingParents ==
    Drawn =>
        /\ Len(canvasLines) = ResolvedCount(1)
        /\ \A i \in Window :
              /\ Len(LinesFrom(i)) = Len(ResolvedParents(i))
              /\ \A k \in 1..Len(LinesFrom(i)) :
                    Commits[LinesFrom(i)[k].to].sha = ResolvedParents(i)[k]
        /\ Columns(Commits) =
               Columns(AssignColumns(
                   WithoutDangling(Snapshot(commitTreeData[1]).commits)))

\* A node on a branch lane has a dangling parent id and one that resolves.
DanglingParentsWitness ==
    /\ Drawn
    /\ \E i \in Window :
          /\ Len(Commits[i].parents) = 2
          /\ Len(ResolvedParents(i)) = 1
          /\ Len(LinesFrom(i)) = 1
          /\ Commits[i].column = Num(1)

(* C8: First writer wins.  In the propagation pass a node that has a lane is
   never given another one; an unlabeled parent ends with the lane and colour
   of the first of its children, in build order, that holds a lane when the
   pass visits it. *)
FirstPassCommits ==
    FirstPass(Snapshot(commitTreeData[1]).commits,
              NewBranchToColumn, NewNextColumn, 1).commits

\* The commits when the second pass reaches commit i.
AtVisit(i) == SecondPassOver(FirstPassCommits, 1, i - 1)

Children(p) == {i \in Window : Commits[p].sha \in Range(Commits[i].parents)}
Writers(p) == {i \in Children(p) : AtVisit(i)[i].column # Undefined}
SetMin(S) == CHOOSE x \in S : \A y \in S : x <= y

FirstWriterWins ==
    Drawn =>
        /\ \A i, j \in Window :
              AtVisit(i)[j].column # Undefined =>
                  /\ AtVisit(i + 1)[j].column = AtVisit(i)[j].column
                  /\ AtVisit(i + 1)[j].color = AtVisit(i)[j].color
        /\ \A p \in Window :
              (~Labelled(Commits[p]) /\ Writers(p) # {}) =>
                  /\ Commits[p].column = Commits[SetMin(Writers(p))].column
                  /\ Commits[p].color = Commits[SetMin(Writers(p))].color

\* Two children on different lanes, both holding their lane when visited,
\* share an unlabeled parent, which has the lane of the first.
FirstWriterWinsWitness ==
    /\ Drawn
    /\ \E p \in Window : \E a, b \in Writers(p) :
          /\ a < b
          /\ ~Labelled(Commits[p])
          /\ Commits[a].column # Commits[b].column
          /\ Commits[p].column = Commits[a].column

\* The claim as stated: the parent has the lane and colour of its first child
\* in build order.
FirstChildWinsAsClaimed ==
    Drawn => \A p \in Window : \A a, b \in Children(p) :
        (~Labelled(Commits[p]) /\ Commits[a].column # Commits[b].column) =>
            /\ Commits[p].column = Commits[SetMin(Children(p))].column
            /\ Commits[p].color = Commits[SetMin(Children(p))].color

(* C9: Lane totality and fallback.  After the three passes every node has an
   integer lane >= 0, and every node without a branch label that received no
   lane through propagation has lane 0. *)
LaneTotalityAsClaimed ==
    Drawn => \A i \in Window :
        /\ IsNum(Commits[i].column)
        /\ Commits[i].column.num >= 0
        /\ (~Labelled(Commits[i])
              /\ SecondPass(FirstPassCommits)[i].column = Undefined)
                 => Commits[i].column = Num(0)

(* C10: Direct-label allocation.  Each labelled node gets the lane bound to
   its first label: 0 for main and master, and for every other name the next
   unused integer from 1 on, in the order of first encounter; so distinct
   non-primary first labels get distinct lanes, and k of them the lanes
   1..k. *)
IsPrimary(name) == name \in {"main", "master"}

\* The non-primary first labels met before commit i.
SecondaryBefore(i) ==
    {FirstLabel(Commits[j]) : j \in {k \in 1..(i - 1) :
        Labelled(Commits[k]) /\ ~IsPrimary(FirstLabel(Commits[k]))}}

\* The first node that carries the first label of node i.
FirstWith(i) ==
    SetMin({j \in Window : Labelled(Commits[j])
                              /\ FirstLabel(Commits[j]) = FirstLabel(Commits[i])})

BoundLane(i) ==
    IF IsPrimary(FirstLabel(Commits[i])) THEN 0
    ELSE 1 + Cardinality(SecondaryBefore(FirstWith(i)))

DirectLabelAllocationAsClaimed ==
    Drawn =>
        /\ \A i \in Window :
              Labelled(Commits[i]) => Commits[i].column = Num(BoundLane(i))
        /\ LET secondary == {i \in Window : Labelled(Commits[i])
                                /\ ~IsPrimary(FirstLabel(Commits[i]))}
           IN  {Commits[i].column : i \in secondary} =
                   {Num(l) : l \in 1..Cardinality(
                       {FirstLabel(Commits[i]) : i \in secondary})}

(* C11: Tie-break non-interference.  The lanes of a snapshot are those of
   the snapshot with every label after the first one removed, and those of
   the snapshot with another label put in their place: labels after the
   first one change no lane. *)
\* The commits with the labels after the first one replaced by `others`.
WithOtherLabels(commits, others) ==
    [i \in 1..Len(commits) |->
        IF Labelled(commits[i])
        THEN [commits[i] EXCEPT !.branches = <<FirstLabel(commits[i])>> \o others]
        ELSE commits[i]]

OtherLabels == {<<>>} \cup {<<b>> : b \in BranchNameSet}

TieBreakNonInterference ==
    Drawn => \A others \in OtherLabels :
        Columns(AssignColumns(
            WithOtherLabels(Snapshot(commitTreeData[1]).commits, others)))
          = Columns(Commits)

\* A node with a second label that, were it the first one, would put the
\* node on the trunk, next to a node on the trunk.
TieBreakWitness ==
    /\ Drawn
    /\ \E i, j \in Window :
          /\ Commits[i].branches = <<"feature", "main">>
          /\ Commits[i].column = Num(1)
          /\ Commits[j].column = Num(0)

(* C12: Edge routing.  Every line between a node and a parent in the window
   is straight if and only if the two have the same lane, and curved
   otherwise. *)
EdgeRoutingAsClaimed ==
    Drawn => \A k \in 1..Len(canvasLines) :
        canvasLines[k].curved <=>
            Commits[canvasLines[k].from].column # Commits[canvasLines[k].to].column

(* C13: Trunk scenario.  For the build order [C3 (label main, parents
   [C2]), C2 (parents [C1]), C1 (no parents)] with head C3 the build puts C3,
   C2 and C1 in lane 0, draws exactly the lines C3->C2 and C2->C1, both
   straight, and is_head is true on C3 only. *)
TrunkScenarioInput ==
    /\ Drawn
    /\ Len(Commits) = 3
    /\ Commits[1].branches = <<"main">>
    /\ Commits[2].branches = <<>>
    /\ Commits[3].branches = <<>>
    /\ Commits[1].parents = <<Commits[2].sha>>
    /\ Commits[2].parents = <<Commits[3].sha>>
    /\ Commits[3].parents = <<>>
    /\ commitTreeData[1].current_sha = Commits[1].sha

TrunkScenario ==
    TrunkScenarioInput =>
        /\ \A i \in Window : Commits[i].column = Num(0)
        /\ canvasLines = <<[from |-> 1, to |-> 2, curved |-> FALSE],
                           [from |-> 2, to |-> 3, curved |-> FALSE]>>
        /\ HeadsOf(Commits) = {1}

TrunkScenarioWitness ==
    /\ TrunkScenarioInput
    /\ Len(canvasLines) = 2
    /\ Commits[3].column = Num(0)
    /\ Commits[1].is_head

(* C14: Idempotent re-projection.  A call of drawCommitTree on the data
   object it already processed, as setTheme makes, leaves the lane, colour
   and position of every node and the lines as the call before left them. *)
Redrawn == \E t \in Themes : SetTheme(t)

IdempotentReprojection ==
    [][(Drawn /\ Redrawn) =>
          /\ commitTreeData' = commitTreeData
          /\ CommitPositions(Commits)' = CommitPositions(Commits)
          /\ canvasLines' = canvasLines
          /\ clickAreas' = clickAreas]_vars

\* The theme was changed on a page that shows a branch next to the trunk,
\* with a node that took its lane in the second pass.
IdempotentReprojectionWitness ==
    /\ Drawn
    /\ theme # DefaultTheme
    /\ \E i, j \in Window :
          /\ Commits[i].column = Num(1)
          /\ ~Labelled(Commits[j])
          /\ Commits[j].column = Num(1)

(* C15: No state across builds.  Whatever was built before, the layout on
   the page is the one a first build on a new page gives for the snapshot it
   shows, and the nodes the screen holds are those a first build gives for
   their snapshot: no binding and no lane of an earlier build is in them. *)
FreshBranchToColumn ==
    [b \in BranchNameSet |-> IF b \in {"main", "master"} THEN Num(0) ELSE Undefined]

FirstBuildCommits(commits) ==
    ThirdPass(SecondPass(FirstPass(commits, FreshBranchToColumn, 1, 1).commits))

\* The nodes as build_graph makes them, before _assign_columns.
NodeSnapshot(nodeList) ==
    [i \in 1..Len(nodeList) |-> [nodeList[i] EXCEPT !.column = 0]]

NoStateAcrossBuilds ==
    /\ Drawn =>
          /\ Commits = FirstBuildCommits(Snapshot(commitTreeData[1]).commits)
          /\ canvasLines = ConnectingLines(Commits, CommitPositions(Commits), 1)
          /\ clickAreas = ClickAreas(CommitPositions(Commits))
    /\ mounted =>
          nodes = AssignNodeColumns(NodeSnapshot(nodes),
                                    [b \in BranchNameSet |-> NoColumn], 0, 1)

\* The page shows one snapshot and the screen another, both with a branch
\* beside the trunk, and the repository has moved on from both.
NoStateAcrossBuildsWitness ==
    /\ Drawn /\ mounted
    /\ Len(Commits) = Len(nodes)
    /\ Commits[1].branches # nodes[1].branches
    /\ GetCommitTree(repo) # Snapshot(commitTreeData[1])
    /\ BuildGraph(repo) # nodes
    /\ \E i \in Window : Commits[i].column = Num(1)
    /\ \E i \in 1..Len(nodes) : nodes[i].column = 1

(* C16: Order preservation.  The i-th commit of the log is the i-th node of
   the page and of the screen; on the page its place along the time axis,
   counted in rows from the top, is i - 1, so the places are pairwise
   distinct, strictly increasing and cover 0..N-1. *)
\* The row of click area i: how many rows its centre lies below the first.
RowOf(i) == (clickAreas[i].y + nodeRadius - startY) \div verticalSpacing

OrderPreservation ==
    /\ Drawn =>
          /\ Len(clickAreas) = WindowSize(repo)
          /\ Len(Commits) = WindowSize(repo)
          /\ \A i \in Window :
                /\ Commits[i].sha = Abbrev(repo, FullSha(i))
                /\ clickAreas[i].commit = i
                /\ clickAreas[i].y + nodeRadius = startY + RowOf(i) * verticalSpacing
                /\ RowOf(i) = i - 1
          /\ \A i, j \in Window : i < j => clickAreas[i].y < clickAreas[j].y
          /\ {RowOf(i) : i \in Window} = 0..(Len(Commits) - 1)
    /\ mounted =>
          /\ Len(nodes) = WindowSize(repo)
          /\ \A i \in 1..Len(nodes) : nodes[i].sha = FullSha(i)

\* Three commits or more on the page and on the screen.
OrderPreservationWitness ==
    /\ Drawn /\ mounted
    /\ Len(Commits) >= 3
    /\ Len(nodes) >= 3
    /\ RowOf(3) = 2

(* C17: Malformed input.  A record of the log that lacks a required field
   makes the builder fail with a MalformedInput error; it is never dropped
   silently and never becomes a node. *)
\* A record with fewer fields than the format has, or with no id.
Malformed(line) ==
    /\ line # <<>>
    /\ \/ Len(Split(line, FieldCount - 1)) < FieldCount
       \/ Split(line, FieldCount - 1)[2] = <<>>

MalformedInputAsClaimed ==
    (parsed # <<>> /\ \E i \in 1..Len(log_output) : Malformed(log_output[i]))
        => parsed[1].status = "MalformedInput"

(* C18: Lookup by id prefix.  get_node_by_sha(nodes, s) returns None if and
   only if no node's full sha starts with s; otherwise it returns the first
   node in list order whose full sha starts with s; the call changes no
   node. *)
\* The nodes whose full sha begins with the characters of s.
WithPrefix(s) ==
    {i \in 1..Len(nodes) :
        Len(s) <= Len(nodes[i].sha) /\ SubSeq(nodes[i].sha, 1, Len(s)) = s}

LookupByPrefix ==
    found # <<>> =>
        /\ found[1].node = NoIndex <=> WithPrefix(found[1].sha) = {}
        /\ WithPrefix(found[1].sha) # {} =>
              /\ found[1].node \in WithPrefix(found[1].sha)
              /\ \A i \in WithPrefix(found[1].sha) : found[1].node <= i
        /\ nodes = BuildGraph(repo)

\* A shortened name names the third node alone; and a lookup with a prefix
\* that several nodes share returns the first of them.
LookupByPrefixWitness ==
    /\ found # <<>>
    /\ Len(nodes) > 2
    /\ \/ found[1].node = 3 /\ Len(found[1].sha) = ShortLen
       \/ found[1].node = 1 /\ Cardinality(WithPrefix(found[1].sha)) > 1
                            /\ Len(found[1].sha) > 0

(* C19: Trunk reservation in the text front end.  After _assign_columns
   every node whose first branch label is main or master has column 0, even
   when the tip of another branch comes earlier in the build order. *)
TextTrunkReservationAsClaimed ==
    mounted => \A i \in 1..Len(nodes) :
        (Labelled(nodes[i]) /\ IsPrimary(FirstLabel(nodes[i])))
            => nodes[i].column = 0

(* C20: Horizontal rows.  _assign_positions binds the B branch names to
   pairwise distinct rows 0..B-1, main and master before every other branch
   and the others in the order of their names, so that main is on row 0
   whenever it exists; every node's row is the row of the first branch of
   its branch list. *)
Bound == {b \in BranchNameSet : hgraph[1].row_assignments[b] # NoRow}
RowOfBranch(b) == hgraph[1].row_assignments[b]
NameOrder(b) == CHOOSE k \in 1..Len(BranchNames) : BranchNames[k] = b

HorizontalRows ==
    hgraph # <<>> =>
        /\ Bound = {b \in BranchNameSet : repo.tips[b] # Outside}
        /\ \A a, b \in Bound : a # b => RowOfBranch(a) # RowOfBranch(b)
        /\ {RowOfBranch(b) : b \in Bound} = 0..(Cardinality(Bound) - 1)
        /\ \A a, b \in Bound :
              (IsPrimary(a) /\ ~IsPrimary(b)) => RowOfBranch(a) < RowOfBranch(b)
        /\ \A a, b \in Bound :
              (~IsPrimary(a) /\ ~IsPrimary(b) /\ NameOrder(a) < NameOrder(b))
                  => RowOfBranch(a) < RowOfBranch(b)
        /\ "main" \in Bound => RowOfBranch("main") = 0
        /\ \A i \in 1..Len(hgraph[1].nodes) :
              /\ Labelled(hgraph[1].nodes[i])
              /\ hgraph[1].nodes[i].row =
                     RowOfBranch(FirstLabel(hgraph[1].nodes[i]))

\* main and feature both exist; a commit that both reach lists feature first
\* and is on the row of feature.
HorizontalRowsWitness ==
    /\ hgraph # <<>>
    /\ RowOfBranch("main") = 0
    /\ RowOfBranch("feature") = 1
    /\ \E i \in 1..Len(hgraph[1].nodes) :
          /\ hgraph[1].nodes[i].branches = <<"feature", "main">>
          /\ hgraph[1].nodes[i].row = 1

(* C21: Horizontal time axis.  The col values of the N nodes are a
   bijection onto 0..N-1 in non-decreasing timestamp order, col 0 being the
   oldest: no two nodes share a col and a node with a strictly earlier
   timestamp has a smaller col. *)
HNodes == hgraph[1].nodes

\* The place in the log of the commit that node i stands for.
CommitOf(i) == CHOOSE c \in 1..WindowSize(repo) : FullSha(c) = HNodes[i].sha

HorizontalTimeAxis ==
    hgraph # <<>> =>
        /\ {HNodes[i].col : i \in 1..Len(HNodes)} = 0..(Len(HNodes) - 1)
        /\ \A i, j \in 1..Len(HNodes) : i # j => HNodes[i].col # HNodes[j].col
        /\ \A i, j \in 1..Len(HNodes) :
              /\ Timestamp(repo, CommitOf(i)) < Timestamp(repo, CommitOf(j))
                    => HNodes[i].col < HNodes[j].col
              /\ HNodes[i].col < HNodes[j].col
                    => Timestamp(repo, CommitOf(i)) <= Timestamp(repo, CommitOf(j))

\* Four nodes, two of them with one timestamp, met in another order than
\* that of their timestamps.
HorizontalTimeAxisWitness ==
    /\ hgraph # <<>>
    /\ Len(HNodes) = 4
    /\ \E i, j \in 1..4 :
          /\ i # j
          /\ Timestamp(repo, CommitOf(i)) = Timestamp(repo, CommitOf(j))
    /\ \E i, j \in 1..4 : i < j /\ HNodes[i].col > HNodes[j].col

(* C22: Children index.  After HorizontalGitGraph.build_graph, for all nodes
   p and c of the window, c.sha is in p.children if and only if p.sha is in
   c.parents; a parent id outside the window adds no child entry and the
   build still returns; each (parent, child) pair is recorded once. *)
HShas == {HNodes[i].sha : i \in 1..Len(HNodes)}

ChildrenIndex ==
    hgraph # <<>> =>
        \A p \in 1..Len(HNodes) :
            /\ \A c \in 1..Len(HNodes) :
                  HNodes[c].sha \in Range(HNodes[p].children)
                      <=> HNodes[p].sha \in Range(HNodes[c].parents)
            /\ Range(HNodes[p].children) \subseteq HShas
            /\ \A k, l \in 1..Len(HNodes[p].children) :
                  k # l => HNodes[p].children[k] # HNodes[p].children[l]

\* A merge, whose second parent has it as a child, beside a node with a
\* parent outside the window.
ChildrenIndexWitness ==
    /\ hgraph # <<>>
    /\ \E c, p \in 1..Len(HNodes) :
          /\ Len(HNodes[c].parents) = 2
          /\ HNodes[c].parents[2] = HNodes[p].sha
          /\ HNodes[c].sha \in Range(HNodes[p].children)
    /\ \E c \in 1..Len(HNodes) :
          \E k \in 1..Len(HNodes[c].parents) :
              HNodes[c].parents[k] \notin HShas

(* C23: Single pass suffices.  When every in-window parent comes after all
   of its children in build order, one propagation pass reaches the fixpoint:
   after it no node with a lane has an in-window parent without a lane, and
   the lanes equal those obtained by repeating the pass until nothing
   changes. *)
ParentsAfterChildren(commits) ==
    \A i \in 1..Len(commits) :
        \A k \in 1..Len(commits[i].parents) :
            CommitMap(commits, commits[i].parents[k]) # NoIndex =>
                CommitMap(commits, commits[i].parents[k]) > i

\* No node with a lane has an in-window parent without one.
LanesClosed(commits) ==
    \A i \in 1..Len(commits) :
        commits[i].column # Undefined =>
            \A k \in 1..Len(commits[i].parents) :
                CommitMap(commits, commits[i].parents[k]) # NoIndex =>
                    commits[CommitMap(commits, commits[i].parents[k])].column
                        # Undefined

\* The pass repeated until it changes nothing.
RECURSIVE RepeatedPass(_)
RepeatedPass(commits) ==
    IF SecondPass(commits) = commits THEN commits
    ELSE RepeatedPass(SecondPass(commits))

SinglePassSuffices ==
    (Drawn /\ ParentsAfterChildren(Commits)) =>
        /\ LanesClosed(SecondPass(FirstPassCommits))
        /\ SecondPass(FirstPassCommits) = RepeatedPass(FirstPassCommits)
        /\ Commits = ThirdPass(RepeatedPass(FirstPassCommits))

\* A labelled commit hands its lane down a chain of two unlabeled ancestors
\* in the one pass.
SinglePassSufficesWitness ==
    /\ Drawn
    /\ ParentsAfterChildren(Commits)
    /\ Len(Commits) >= 3
    /\ \E i, j, k \in Window :
          /\ i < j /\ j < k
          /\ FirstPassCommits[i].column = Num(1)
          /\ FirstPassCommits[j].column = Undefined
          /\ FirstPassCommits[k].column = Undefined
          /\ Commits[j].sha \in Range(Commits[i].parents)
          /\ Commits[k].sha \in Range(Commits[j].parents)
          /\ Commits[k].column = Num(1)

(* C24: Text-mode inheritance.  After GitGraph._assign_columns over a
   newest-first list, every node without a branch label whose first parent is
   in the window has the same column as that first parent; a node without a
   label and without an in-window first parent has column 0. *)
NewestFirst(nodeList) ==
    \A i \in 1..Len(nodeList) :
        \A k \in 1..Len(nodeList[i].parents) :
            NodeMap(nodeList, nodeList[i].parents[k]) # NoIndex =>
                NodeMap(nodeList, nodeList[i].parents[k]) > i

TextInheritanceAsClaimed ==
    (mounted /\ NewestFirst(nodes)) =>
        \A i \in 1..Len(nodes) :
            ~Labelled(nodes[i]) =>
                IF /\ Len(nodes[i].parents) > 0
                   /\ NodeMap(nodes, nodes[i].parents[1]) # NoIndex
                THEN nodes[i].column =
                         nodes[NodeMap(nodes, nodes[i].parents[1])].column
                ELSE nodes[i].column = 0

(* C25: Refresh selects head.  render_graph emits one commit line per node,
   in node order, separated by one connector line (2N-1 lines for N >= 1
   nodes), so that after GraphScreen.refresh_graph, whenever some node of the
   window is the head, get_selected_commit returns that head node. *)
View == graph_view[1]

\* Line k (from 1) of the N >= 1 nodes: the commit line of node (k+1)/2 when k
\* is odd, a connector when k is even.
OneLinePerNode(nodeList, graph_lines) ==
    /\ Len(graph_lines) = 2 * Len(nodeList) - 1
    /\ \A k \in 1..Len(graph_lines) :
          IF k % 2 = 1
          THEN /\ graph_lines[k].is_commit_line
               /\ graph_lines[k].commit_node = <<nodeList[(k + 1) \div 2]>>
          ELSE /\ ~graph_lines[k].is_commit_line
               /\ graph_lines[k].commit_node = <<>>

RefreshSelectsHead ==
    /\ [](graph_view # <<>> /\ nodes # <<>>
             => OneLinePerNode(nodes, View.graph_lines))
    /\ [][(ScreenRefresh /\ graph_view' # <<>>) =>
             \A i \in 1..Len(nodes') :
                 nodes'[i].is_head =>
                     GetSelectedCommit(graph_view'[1]) = <<nodes'[i]>>]_vars

\* The head is the third of three nodes; the view has five lines and the
\* head is the selected commit.
RefreshSelectsHeadWitness ==
    /\ graph_view # <<>>
    /\ Len(nodes) = 3
    /\ nodes[3].is_head
    /\ Len(View.graph_lines) = 5
    /\ View.selected_index = 2
    /\ GetSelectedCommit(View) = <<nodes[3]>>

(* C28: Cursor bounds.  After any sequence of refresh, move_up and move_down
   on GraphView, selected_index stays within 0..max(0, n-1), n being the
   number of commit lines; move_up at index 0 and move_down at index n-1
   leave it unchanged, and get_selected_commit returns None only when
   n = 0. *)
CommitLines == Len(View.commit_indices)

CursorBounds ==
    /\ [](graph_view # <<>> =>
             /\ View.selected_index >= 0
             /\ View.selected_index <= IF CommitLines = 0 THEN 0
                                       ELSE CommitLines - 1
             /\ GetSelectedCommit(View) = <<>> <=> CommitLines = 0)
    /\ [][(ActionCursorUp /\ graph_view # <<>> /\ View.selected_index = 0)
             => graph_view' = graph_view]_vars
    /\ [][(/\ ActionCursorDown
           /\ graph_view # <<>>
           /\ View.selected_index = CommitLines - 1)
             => graph_view' = graph_view]_vars

\* The cursor is on the last of three commit lines, below the head.
CursorBoundsWitness ==
    /\ graph_view # <<>>
    /\ CommitLines = 3
    /\ View.selected_index = 2
    /\ \E i \in 1..2 : nodes[i].is_head

(* C29: Checkout only after confirmation.  In GraphScreen a checkout of a
   commit is issued only after action_goto_commit on a selected commit
   followed by the confirmation dialog being dismissed with 'yes' for that
   same commit; dismissing with cancel issues no checkout and leaves nodes
   and selection unchanged; a successful checkout is always followed by a
   graph rebuild; building and rendering the graph alone never issue a
   checkout. *)
LastCheckout == checked_out[Len(checked_out)]

CheckoutOnlyAfterConfirmation ==
    /\ [][(dialog' # dialog /\ dialog' # <<>>) =>
             /\ ActionGotoCommit
             /\ graph_view # <<>>
             /\ dialog' = GetSelectedCommit(View)]_vars
    /\ [][checked_out' # checked_out =>
             /\ dialog # <<>>
             /\ ButtonPressed("yes")
             /\ checked_out' = Append(checked_out, LastCheckout')
             /\ LastCheckout'.sha = dialog[1].sha
             /\ LastCheckout'.ok =>
                   /\ HeadSha(repo') = dialog[1].sha
                   /\ nodes' = BuildGraph(repo')
                   /\ graph_view' = <<RefreshedView(nodes')>>]_vars
    /\ [][ButtonPressed("cancel") =>
             UNCHANGED <<checked_out, repo, nodes, graph_view>>]_vars
    /\ [][ScreenRefresh => UNCHANGED <<checked_out, repo>>]_vars

\* A commit other than the head it was built with has been checked out, and
\* the graph rebuilt shows it as the head and selects it.
CheckoutOnlyAfterConfirmationWitness ==
    /\ checked_out # <<>>
    /\ LastCheckout.ok
    /\ Len(checked_out) = MaxCheckouts
    /\ checked_out[1].sha # LastCheckout.sha
    /\ dialog = <<>>
    /\ \E i \in 2..Len(nodes) :
          /\ nodes[i].sha = LastCheckout.sha
          /\ nodes[i].is_head
          /\ GetSelectedCommit(View) = <<nodes[i]>>

(* C26: Click regions follow the last draw.  After any sequence of
   drawCommitTree calls, calls with an empty commit list included, the
   click-region list holds exactly one region per node of the most recently
   drawn snapshot, each a square of side 2*nodeRadius centred on that node's
   position and referring to that node; regions of distinct nodes are
   disjoint, so that a click point selects at most one commit. *)

\* Some point lies in both regions; a comparison with NaN is false.
Overlap(a, b) ==
    /\ IsNum(a.x) /\ IsNum(b.x)
    /\ a.x.num <= b.x.num + b.width /\ b.x.num <= a.x.num + a.width
    /\ a.y <= b.y + b.height /\ b.y <= a.y + a.height

ClickRegionsAsClaimed ==
    Drawn =>
        /\ Len(clickAreas) = Len(Commits)
        /\ \A i \in 1..Len(clickAreas) :
              /\ i <= Len(Commits)
              /\ clickAreas[i].commit = i
              /\ clickAreas[i].width = 2 * nodeRadius
              /\ clickAreas[i].height = 2 * nodeRadius
              /\ clickAreas[i].x =
                     JsPlus(CommitPositions(Commits)[i].x, 0 - nodeRadius)
              /\ clickAreas[i].y = CommitPositions(Commits)[i].y - nodeRadius
        /\ \A i, j \in 1..Len(clickAreas) :
              i # j => ~Overlap(clickAreas[i], clickAreas[j])

(* C27: Latest refresh wins.  When several commit-tree refreshes are
   outstanding at once, once all of them have completed the stored
   commitTreeData and the drawn layout are those of the most recently issued
   request, never of an older request whose response arrived later. *)
LatestRefreshWinsAsClaimed ==
    (inflight = <<>> /\ issued # <<>> /\ issued[1].ok) =>
        /\ Drawn
        /\ Snapshot(commitTreeData[1]) = Snapshot(issued[1].data)
        /\ canvasLines = DrawCommitTree(issued[1].data, <<>>).lines
        /\ clickAreas = DrawCommitTree(issued[1].data, <<>>).clickAreas

(* C30: Cyclic branch selection.  In HorizontalGraphView with a non-empty
   branch list of length L, after any sequence of move_to_next_branch and
   move_to_prev_branch the selected index stays in 0..L-1; next followed by
   prev, and prev followed by next, returns to the same index; L consecutive
   next moves return to the start; with an empty list both moves leave the
   index unchanged. *)
BranchView == branch_view[1]
BranchCount == Len(BranchView.branches_list)

\* move_to_next_branch, k times.
RECURSIVE NextTimes(_, _)
NextTimes(view, k) ==
    IF k = 0 THEN view ELSE NextTimes(MoveToNextBranch(view), k - 1)

CyclicBranchSelection ==
    branch_view # <<>> =>
        /\ BranchCount > 0 =>
              /\ BranchView.selected_branch_index \in 0..(BranchCount - 1)
              /\ GetSelectedBranch(BranchView) # <<>>
        /\ MoveToPrevBranch(MoveToNextBranch(BranchView)) = BranchView
        /\ MoveToNextBranch(MoveToPrevBranch(BranchView)) = BranchView
        /\ NextTimes(BranchView, BranchCount) = BranchView
        /\ BranchCount = 0 =>
              /\ MoveToNextBranch(BranchView) = BranchView
              /\ MoveToPrevBranch(BranchView) = BranchView

\* Four branches; the last is selected although the head is on the first:
\* the selection went back from the first branch, or forth three times.
CyclicBranchSelectionWitness ==
    /\ branch_view # <<>>
    /\ BranchCount = 4
    /\ BranchView.selected_branch_index = 3
    /\ BranchView.branches_list[1].commit.is_head
    /\ MoveToNextBranch(BranchView).selected_branch_index = 0

====
